---- MODULE Spec2Model ----
(***************************************************************************)
(* Allele algebra, smart_merge and reconciled_to of gprim/annotation.py.   *)
(*                                                                         *)
(* A Python string is a sequence of one-character strings, so that `+` is  *)
(* \o and x[0] is x[1].  A DataFrame is a record [cols, rows]: cols is the *)
(* sequence of column names, rows the sequence of rows, each row a         *)
(* sequence of cells aligned with cols.  Rows are addressed by position:   *)
(* every table carries the default RangeIndex, which is what reset_index   *)
(* (drop=True) and pd.merge produce.                                       *)
(***************************************************************************)
EXTENDS Integers, Sequences, FiniteSets, TLC

VARIABLES op, args, ret

vars == <<op, args, ret>>

(***************************************************************************)
(* Cells.  A cell is a number, a string or NaN (pandas' null).             *)
(***************************************************************************)
Num(n) == [k |-> "num", n |-> n, s |-> <<>>]

Str(s) == [k |-> "str", n |-> 0, s |-> s]

NaN == [k |-> "nan", n |-> 0, s |-> <<>>]

isnull(c) == c.k = "nan"

\* str.upper() on the characters the model uses
UpperChar(c) ==
    CASE c = "a" -> "A"
      [] c = "c" -> "C"
      [] c = "g" -> "G"
      [] c = "t" -> "T"
      [] c = "n" -> "N"
      [] OTHER -> c

upper(s) == [i \in 1..Len(s) |-> UpperChar(s[i])]

(***************************************************************************)
(* The allele algebra (module constants).                                  *)
(***************************************************************************)
COMPLEMENT_typo == ("A" :> "T") @@ ("T" :> "A") @@ ("C" :> "G") @@ ("G" :> "A")

COMPLEMENT == ("A" :> "T") @@ ("T" :> "A") @@ ("C" :> "G") @@ ("G" :> "C")

BASES == DOMAIN COMPLEMENT

\* itertools.product(BASES, BASES), each element joined to a 2-character string
BasePairs == {<<a, b>> : a \in BASES, b \in BASES}

STRAND_AMBIGUOUS ==
    [x \in {y \in BasePairs : y[1] # y[2]} |-> x[1] = COMPLEMENT[x[2]]]

VALID_SNPS_keep_ambiguous == {x \in BasePairs : x[1] # x[2]}

VALID_SNPS == {x \in BasePairs : x[1] # x[2] /\ ~STRAND_AMBIGUOUS[x]}

\* the four conditions of MATCH_ALLELES, on a 4-character string x
StrandAndRefMatch(x) == x[1] = x[3] /\ x[2] = x[4]

RefMatchStrandFlip(x) == x[1] = COMPLEMENT[x[3]] /\ x[2] = COMPLEMENT[x[4]]

RefFlipStrandMatch(x) == x[1] = x[4] /\ x[2] = x[3]

RefFlipStrandFlip(x) == x[1] = COMPLEMENT[x[4]] /\ x[2] = COMPLEMENT[x[3]]

MATCH_ALLELES ==
    {x \in {p \o q : p \in VALID_SNPS, q \in VALID_SNPS} :
        \/ StrandAndRefMatch(x)
        \/ RefMatchStrandFlip(x)
        \/ RefFlipStrandMatch(x)
        \/ RefFlipStrandFlip(x)}

FLIP_ALLELES_strand_match_only == {x \in MATCH_ALLELES : RefFlipStrandMatch(x)}

FLIP_ALLELES ==
    {x \in MATCH_ALLELES : RefFlipStrandMatch(x) \/ RefFlipStrandFlip(x)}

(***************************************************************************)
(* DataFrame operations (pandas), as far as smart_merge and reconciled_to  *)
(* use them.                                                               *)
(***************************************************************************)
RECURSIVE ConcatAll(_)
ConcatAll(ss) == IF ss = <<>> THEN <<>> ELSE Head(ss) \o ConcatAll(Tail(ss))

SeqToSet(s) == {s[i] : i \in 1..Len(s)}

len(t) == Len(t.rows)

ColIdx(t, c) == CHOOSE i \in 1..Len(t.cols) : t.cols[i] = c

\* t[c]
Column(t, c) == [r \in 1..len(t) |-> t.rows[r][ColIdx(t, c)]]

Project(row, idx) == [j \in 1..Len(idx) |-> row[idx[j]]]

\* positions of the columns of t not named in names, in column order
OtherIdx(t, names) ==
    SelectSeq([i \in 1..Len(t.cols) |-> i], LAMBDA i : t.cols[i] \notin names)

\* t.drop(names, axis=1)
drop(t, names) ==
    LET idx == OtherIdx(t, SeqToSet(names))
    IN  [cols |-> Project(t.cols, idx),
         rows |-> [r \in 1..len(t) |-> Project(t.rows[r], idx)]]

\* t[names]
select(t, names) ==
    LET idx == [j \in 1..Len(names) |-> ColIdx(t, names[j])]
    IN  [cols |-> names,
         rows |-> [r \in 1..len(t) |-> Project(t.rows[r], idx)]]

\* t.rename(columns={'A1':'A1_df','A2':'A2_df'})
rename_df(t) ==
    [cols |-> [i \in 1..Len(t.cols) |->
                 CASE t.cols[i] = "A1" -> "A1_df"
                   [] t.cols[i] = "A2" -> "A2_df"
                   [] OTHER -> t.cols[i]],
     rows |-> t.rows]

\* pd.concat(ts, axis=1) of tables of equal length with a RangeIndex
concat(ts) ==
    [cols |-> ConcatAll([k \in 1..Len(ts) |-> ts[k].cols]),
     rows |-> [r \in 1..len(ts[1]) |->
                 ConcatAll([k \in 1..Len(ts) |-> ts[k].rows[r]])]]

\* elementwise x != y of two cells (NaN differs from everything)
CellNe(a, b) == isnull(a) \/ isnull(b) \/ a # b

NaNs(n) == [j \in 1..n |-> NaN]

\* positions of the rows of t whose key cell equals kc, in row order
RowsWithKey(t, key, kc) ==
    SelectSeq([r \in 1..len(t) |-> r],
              LAMBDA r : ~CellNe(t.rows[r][ColIdx(t, key)], kc))

\* ascending sequence of a finite set of numbers
RECURSIVE SortedSeq(_)
SortedSeq(S) ==
    IF S = {} THEN <<>>
    ELSE LET m == CHOOSE a \in S : \A b \in S : a <= b
         IN  <<m>> \o SortedSeq(S \ {m})

\* whether a join mode keeps the left rows that have no right row
KeepsLeft_never(how) == FALSE

KeepsLeft(how) == how \in {"left", "outer"}

\* pd.merge(x, d, how=how, on=key)
merge(x, d, how, key) ==
    LET xk    == ColIdx(x, key)
        rest  == OtherIdx(d, {key})
        nx    == Len(x.cols)
        nr    == Len(rest)
        \* the left row r joined to the right row j
        Both(r, j)  == x.rows[r] \o Project(d.rows[j], rest)
        LeftOnly(r) == x.rows[r] \o NaNs(nr)
        \* a right row without a left row: the key cell comes from the right
        RightOnly(j) ==
            [c \in 1..nx |-> IF c = xk THEN d.rows[j][ColIdx(d, key)] ELSE NaN]
                \o Project(d.rows[j], rest)
        ForLeft(r) ==
            LET js == RowsWithKey(d, key, x.rows[r][xk])
            IN  IF js = <<>>
                THEN (IF KeepsLeft(how) THEN <<LeftOnly(r)>> ELSE <<>>)
                ELSE [m \in 1..Len(js) |-> Both(r, js[m])]
        ForRight(j) ==
            LET rs == RowsWithKey(x, key, d.rows[j][ColIdx(d, key)])
            IN  IF rs = <<>> THEN <<RightOnly(j)>>
                ELSE [m \in 1..Len(rs) |-> Both(rs[m], j)]
        ForKey(n) ==
            LET rs == RowsWithKey(x, key, Num(n))
                js == RowsWithKey(d, key, Num(n))
            IN  IF js = <<>> THEN [m \in 1..Len(rs) |-> LeftOnly(rs[m])]
                ELSE IF rs = <<>> THEN [m \in 1..Len(js) |-> RightOnly(js[m])]
                ELSE ConcatAll([m \in 1..Len(rs) |->
                                  [l \in 1..Len(js) |-> Both(rs[m], js[l])]])
        keys  == SortedSeq({c.n : c \in SeqToSet(Column(x, key))
                                        \cup SeqToSet(Column(d, key))})
        rows  ==
            CASE how \in {"left", "inner"} ->
                    ConcatAll([r \in 1..len(x) |-> ForLeft(r)])
              [] how = "right" ->
                    ConcatAll([j \in 1..len(d) |-> ForRight(j)])
              [] how = "outer" ->
                    ConcatAll([m \in 1..Len(keys) |-> ForKey(keys[m])])
        \* a non-key column name of both tables gets the suffix _x or _y
        rcols == Project(d.cols, rest)
        lname(c) == IF c # key /\ c \in SeqToSet(rcols) THEN c \o "_x" ELSE c
        rname(c) == IF c \in SeqToSet(x.cols) THEN c \o "_y" ELSE c
    IN  [cols |-> [i \in 1..nx |-> lname(x.cols[i])]
                    \o [i \in 1..nr |-> rname(rcols[i])],
         rows |-> rows]

(***************************************************************************)
(* smart_merge(x, y, how, fail_if_nonmatching, drop_from_y, key)           *)
(***************************************************************************)
\* lines 43-49: y a single DataFrame or a list, x a DataFrame or a list
Primary(x, y) == IF x.kind = "list" THEN x.list[1] ELSE x.df

Secondaries(x, y) ==
    LET ylist == IF y.kind = "df" THEN <<y.df>> ELSE y.list
    IN  IF x.kind = "list" THEN Tail(x.list) \o ylist ELSE ylist

\* the test of line 55 for one secondary table d
Nonmatching(x, d, key) ==
    \/ len(x) # len(d)
    \/ \E r \in 1..len(x) : CellNe(Column(x, key)[r], Column(d, key)[r])

\* lines 52-56
RECURSIVE Matching(_, _, _)
Matching(x, ds, key) ==
    IF ds = <<>> THEN TRUE
    ELSE ~Nonmatching(x, Head(ds), key) /\ Matching(x, Tail(ds), key)

\* lines 67-69
RECURSIVE MergeAll(_, _, _, _)
MergeAll(x, ds, how, key) ==
    IF ds = <<>> THEN x
    ELSE MergeAll(merge(x, Head(ds), how, key), Tail(ds), how, key)

FastPath_keeps_keys(x, ds, key) == concat(<<x>> \o ds)

\* line 60: the key column of every secondary table is removed
FastPath(x, ds, key) ==
    concat(<<x>> \o [k \in 1..Len(ds) |-> drop(ds[k], <<key>>)])

NoTable == [cols |-> <<>>, rows |-> <<>>]

\* outcome "return": table is the returned DataFrame;
\* outcome "exit": exit() raised SystemExit, nothing is returned.
\* joined tells whether pd.merge was called
smart_merge_falls_back(x0, y0, how, fail_if_nonmatching, drop_from_y, key) ==
    LET x  == Primary(x0, y0)
        ds == [k \in 1..Len(Secondaries(x0, y0)) |->
                 drop(Secondaries(x0, y0)[k], drop_from_y)]
        matching == Matching(x, ds, key)
    IN  IF matching
        THEN [outcome |-> "return", matching |-> TRUE, joined |-> FALSE,
              table |-> FastPath(x, ds, key)]
        ELSE [outcome |-> "return", matching |-> FALSE, joined |-> TRUE,
              table |-> MergeAll(x, ds, how, key)]

smart_merge(x0, y0, how, fail_if_nonmatching, drop_from_y, key) ==
    LET x  == Primary(x0, y0)
        ds == [k \in 1..Len(Secondaries(x0, y0)) |->
                 drop(Secondaries(x0, y0)[k], drop_from_y)]
        matching == Matching(x, ds, key)
    IN  IF matching
        THEN [outcome |-> "return", matching |-> TRUE, joined |-> FALSE,
              table |-> FastPath(x, ds, key)]
        ELSE IF fail_if_nonmatching
        THEN [outcome |-> "exit", matching |-> FALSE, joined |-> FALSE,
              table |-> NoTable]
        ELSE [outcome |-> "return", matching |-> FALSE, joined |-> TRUE,
              table |-> MergeAll(x, ds, how, key)]

(***************************************************************************)
(* reconciled_to(ref, df, colnames, othercolnames, signed, missing_val,    *)
(*               key)                                                      *)
(***************************************************************************)
DefaultMissingVal == 0

\* t.loc[mask, names] = v, mask a sequence of booleans over the rows
SetLoc(t, mask, names, v) ==
    [cols |-> t.cols,
     rows |-> [r \in 1..len(t) |->
                 [c \in 1..Len(t.cols) |->
                    IF mask[r] /\ t.cols[c] \in SeqToSet(names)
                    THEN v ELSE t.rows[r][c]]]]

\* cell * -1
Negate(c) == IF c.k = "num" THEN Num(0 - c.n) ELSE c

\* t.loc[mask, names] *= -1
NegateLoc(t, mask, names) ==
    [cols |-> t.cols,
     rows |-> [r \in 1..len(t) |->
                 [c \in 1..Len(t.cols) |->
                    IF mask[r] /\ t.cols[c] \in SeqToSet(names)
                    THEN Negate(t.rows[r][c]) ELSE t.rows[r][c]]]]

Count(mask) == Cardinality({r \in 1..Len(mask) : mask[r]})

Missing_never(result) == [r \in 1..len(result) |-> FALSE]

\* line 89
Missing(result) == [r \in 1..len(result) |-> isnull(Column(result, "A1_df")[r])]

\* line 95: (A1 + A2 + A1_df + A2_df).upper(), per row
A1234(result) ==
    [r \in 1..len(result) |->
        upper(Column(result, "A1")[r].s \o Column(result, "A2")[r].s
              \o Column(result, "A1_df")[r].s \o Column(result, "A2_df")[r].s)]

\* line 96
Match(missing, a1234) ==
    [r \in 1..Len(missing) |-> ~missing[r] /\ a1234[r] \in MATCH_ALLELES]

Flip_when_unsigned_too(signed, match, a1234) ==
    [r \in 1..Len(match) |-> match[r] /\ a1234[r] \in FLIP_ALLELES]

Flip_all_matched(signed, match, a1234) ==
    [r \in 1..Len(match) |-> signed /\ match[r]]

\* lines 103-104: no row is flipped when signed is false
Flip(signed, match, a1234) ==
    [r \in 1..Len(match) |-> signed /\ match[r] /\ a1234[r] \in FLIP_ALLELES]

Mismatch_skipped(missing, match) == [r \in 1..Len(missing) |-> FALSE]

\* lines 97-101: the rows present in both tables that do not match
Mismatch(missing, match) ==
    [r \in 1..Len(missing) |-> ~missing[r] /\ ~match[r]]

reconciled_to(ref, df, colnames, othercolnames, signed, missing_val, key) ==
    LET sm       == smart_merge([kind |-> "df", df |-> ref],
                                [kind |-> "df",
                                 df |-> rename_df(select(df,
                                          <<key, "A1", "A2">> \o colnames
                                              \o othercolnames))],
                                "left", FALSE, <<>>, key)
        merged   == sm.table
        missing  == Missing(merged)
        r1       == SetLoc(merged, missing, colnames,
                           Num(missing_val))
        r2       == SetLoc(r1, missing, <<"A1_df", "A2_df">>, Str(<<"-">>))
        a1234    == A1234(r2)
        match    == Match(missing, a1234)
        mismatch == Mismatch(missing, match)
        r3       == SetLoc(r2, mismatch, colnames, Num(missing_val))
        flip     == Flip(signed, match, a1234)
        r4       == NegateLoc(r3, flip, colnames)
    IN  [outcome    |-> "return",
         table      |-> drop(r4, <<"A1_df", "A2_df">>),
         merged     |-> merged,
         fastpath   |-> sm.matching,
         warned     |-> len(merged) # len(ref),
         missing    |-> missing,
         a1234      |-> a1234,
         match      |-> match,
         mismatch   |-> mismatch,
         flip       |-> flip,
         n_merged   |-> len(merged),
         n_missing  |-> Count(missing),
         n_mismatch |-> Count(mismatch),
         n_flip     |-> Count(flip),
         n_noflip   |-> Count([r \in 1..Len(match) |-> match[r] /\ ~flip[r]])]

(***************************************************************************)
(* Bounds and the inputs of the calls.                                     *)
(***************************************************************************)
NumKeys == 2

MaxRows == 2

MaxVal == 1

Keys == 1..NumKeys

KeySeqs == UNION {[1..m -> Keys] : m \in 0..MaxRows}

Vals == (0 - MaxVal)..MaxVal

\* allele characters of the tables: the bases, a lower-case base, a non-base
AlleleChars == BASES \cup {"g", "N"}

Allele(c) == Str(<<c>>)

Pending == [outcome |-> "pending"]

\* --- smart_merge ---
\* primary table: columns SNP, a; the value of row i is i
XTable(ks) ==
    [cols |-> <<"SNP", "a">>,
     rows |-> [i \in 1..Len(ks) |-> <<Num(ks[i]), Num(i)>>]]

\* secondary table: columns <name>, SNP, junk; the value of row i is base + i
YTable(ks, name, base) ==
    [cols |-> <<name, "SNP", "junk">>,
     rows |-> [i \in 1..Len(ks) |-> <<Num(base + i), Num(ks[i]), Num(0)>>]]

\* a second secondary table made from the primary's keys: in lock-step,
\* reversed, or one row short
KeyVariants(ks) ==
    {ks, [i \in 1..Len(ks) |-> ks[Len(ks) + 1 - i]]}
        \cup (IF ks = <<>> THEN {} ELSE {SubSeq(ks, 1, Len(ks) - 1)})

Hows == {"inner", "left", "right", "outer"}

\* the three ways of passing the tables (lines 43-49)
CallForms(x, ds) ==
    {[x |-> [kind |-> "df", df |-> x], y |-> [kind |-> "list", list |-> ds]],
     [x |-> [kind |-> "list", list |-> <<x>> \o ds],
      y |-> [kind |-> "list", list |-> <<>>]]}
    \cup (IF Len(ds) = 1
          THEN {[x |-> [kind |-> "df", df |-> x], y |-> [kind |-> "df", df |-> ds[1]]]}
          ELSE {})

MergeArgs(f, h, b, dr) ==
    [x |-> f.x, y |-> f.y, how |-> h, fail_if_nonmatching |-> b,
     drop_from_y |-> dr, key |-> "SNP"]

\* --- reconciled_to ---
RefTable(ks, pairs) ==
    [cols |-> <<"SNP", "A1", "A2">>,
     rows |-> [i \in 1..Len(ks) |->
                 <<Num(ks[i]), Allele(pairs[i][1]), Allele(pairs[i][2])>>]]

\* data table: beta and z are the value columns, info is passed through,
\* CHR is not selected
DataTable(ks, pairs, betas) ==
    [cols |-> <<"CHR", "SNP", "A1", "A2", "beta", "z", "info">>,
     rows |-> [i \in 1..Len(ks) |->
                 <<Num(22), Num(ks[i]), Allele(pairs[i][1]), Allele(pairs[i][2]),
                   Num(betas[i]), Num(betas[i] + 1), Num(5)>>]]

AllelePairs == AlleleChars \X AlleleChars

ReconcileArgs(ref, df, sg, mv) ==
    [ref |-> ref, df |-> df, colnames |-> <<"beta", "z">>,
     othercolnames |-> <<"info">>, signed |-> sg, missing_val |-> mv,
     key |-> "SNP"]

MissingVals == {DefaultMissingVal, MaxVal + 2}

(***************************************************************************)
(* The calls.                                                              *)
(***************************************************************************)
\* y in MATCH_ALLELES / y in FLIP_ALLELES for the code p+q, and for q+p
Lookup ==
    /\ op = "lookup"
    /\ ret.outcome = "pending"
    /\ ret' = [outcome    |-> "return",
               in_match   |-> (args.p \o args.q) \in MATCH_ALLELES,
               in_flip    |-> (args.p \o args.q) \in FLIP_ALLELES,
               rev_match  |-> (args.q \o args.p) \in MATCH_ALLELES,
               same_order |-> \/ StrandAndRefMatch(args.p \o args.q)
                              \/ RefMatchStrandFlip(args.p \o args.q),
               swapped    |-> \/ RefFlipStrandMatch(args.p \o args.q)
                              \/ RefFlipStrandFlip(args.p \o args.q)]
    /\ UNCHANGED <<op, args>>

\* d.drop(drop_from_y, axis=1, inplace=True) changes the caller's tables
DropInPlace(a) ==
    LET d(t) == drop(t, a.drop_from_y)
        dl(l) == [k \in 1..Len(l) |-> d(l[k])]
    IN  [a EXCEPT
           !.x = IF a.x.kind = "list"
                 THEN [kind |-> "list",
                       list |-> <<a.x.list[1]>> \o dl(Tail(a.x.list))]
                 ELSE a.x,
           !.y = IF a.y.kind = "df" THEN [kind |-> "df", df |-> d(a.y.df)]
                 ELSE [kind |-> "list", list |-> dl(a.y.list)]]

SmartMergeCall ==
    /\ op = "smart_merge"
    /\ ret.outcome = "pending"
    /\ ret' = smart_merge(args.x, args.y, args.how, args.fail_if_nonmatching,
                          args.drop_from_y, args.key)
    /\ args' = DropInPlace(args)
    /\ UNCHANGED op

ReconciledToCall ==
    /\ op = "reconciled_to"
    /\ ret.outcome = "pending"
    /\ ret' = reconciled_to(args.ref, args.df, args.colnames, args.othercolnames,
                            args.signed, args.missing_val, args.key)
    /\ UNCHANGED <<op, args>>

InitAlgebra ==
    /\ op = "lookup"
    /\ args \in {[p |-> p, q |-> q] : p \in BasePairs, q \in BasePairs}
    /\ ret = Pending

\* one or two secondary tables; the second is made from the primary's keys
InitMerge ==
    /\ op = "smart_merge"
    /\ ret = Pending
    /\ \E kx \in KeySeqs, k1 \in KeySeqs :
         \E ds \in {<<YTable(k1, "b", 10)>>}
                     \cup {<<YTable(k1, "b", 10), YTable(k2, "c", 20)>> :
                             k2 \in KeyVariants(kx)} :
           \E f \in CallForms(XTable(kx), ds), h \in Hows, b \in BOOLEAN,
              dr \in {<<>>, <<"junk">>} :
             args = MergeArgs(f, h, b, dr)

\* one reference row against at most one data row, over all allele pairs
InitSingleRow ==
    \E rp \in AllelePairs, sg \in BOOLEAN, mv \in MissingVals :
       \/ args = ReconcileArgs(RefTable(<<1>>, <<rp>>),
                               DataTable(<<>>, <<>>, <<>>), sg, mv)
       \/ \E k \in Keys, dp \in AllelePairs, v \in Vals :
            args = ReconcileArgs(RefTable(<<1>>, <<rp>>),
                                 DataTable(<<k>>, <<dp>>, <<v>>), sg, mv)

\* several rows: every reference row is A/G, a data row is A/G or G/A and
\* carries its position as beta
InitManyRows ==
    \E kr \in KeySeqs, kd \in KeySeqs, sg \in BOOLEAN, mv \in MissingVals :
       \E dps \in [1..Len(kd) -> {<<"A", "G">>, <<"G", "A">>}] :
          args = ReconcileArgs(RefTable(kr, [i \in 1..Len(kr) |-> <<"A", "G">>]),
                               DataTable(kd, dps, [i \in 1..Len(kd) |-> i]),
                               sg, mv)

Init ==
    /\ op = "reconciled_to"
    /\ ret = Pending
    /\ (InitSingleRow \/ InitManyRows)

NextAlgebra == Lookup

NextMerge == SmartMergeCall

Next == ReconciledToCall

SpecAlgebra == InitAlgebra /\ [][NextAlgebra]_vars

SpecMerge == InitMerge /\ [][NextMerge]_vars

Spec == Init /\ [][Next]_vars

Done == ret.outcome # "pending"

(***************************************************************************)
(* The relations of the specification's data model, stated on allele pairs *)
(* (sequences of two characters), independently of the module constants.   *)
(***************************************************************************)
IsBase(c) == c \in {"A", "T", "C", "G"}

Comp(c) == CASE c = "A" -> "T" [] c = "T" -> "A" [] c = "C" -> "G" [] c = "G" -> "C"

is_strand_ambiguous(p) == IsBase(p[1]) /\ IsBase(p[2]) /\ p[1] = Comp(p[2])

is_valid(p) ==
    /\ IsBase(p[1]) /\ IsBase(p[2])
    /\ p[1] # p[2]
    /\ ~is_strand_ambiguous(p)

SameOrder(p, q) ==
    \/ p[1] = q[1] /\ p[2] = q[2]
    \/ p[1] = Comp(q[1]) /\ p[2] = Comp(q[2])

SwappedOrder(p, q) ==
    \/ p[1] = q[2] /\ p[2] = q[1]
    \/ p[1] = Comp(q[2]) /\ p[2] = Comp(q[1])

alleles_match(p, q) ==
    is_valid(p) /\ is_valid(q) /\ (SameOrder(p, q) \/ SwappedOrder(p, q))

alleles_match_with_flip(p, q) == alleles_match(p, q) /\ SwappedOrder(p, q)

(***************************************************************************)
(* The finished call of reconciled_to, as the claims read it.              *)
(***************************************************************************)
RefKeys == Column(args.ref, args.key)

DataKeys == Column(args.df, args.key)

DataRowsOf(kc) == {j \in 1..len(args.df) : DataKeys[j] = kc}

InData(kc) == DataRowsOf(kc) # {}

OutRows == 1..len(ret.table)

OutKey(r) == Column(ret.table, args.key)[r]

OutVal(r, c) == Column(ret.table, c)[r]

\* the value the join brought into row r from the data table
JoinedVal(r, c) == Column(ret.merged, c)[r]

ValueCols == SeqToSet(args.colnames)

MissingValue == Num(args.missing_val)

\* the reference / data allele pair of the joined row r, in upper case
RefPair(r) ==
    upper(Column(ret.merged, "A1")[r].s \o Column(ret.merged, "A2")[r].s)

DataPair(r) ==
    upper(Column(ret.merged, "A1_df")[r].s \o Column(ret.merged, "A2_df")[r].s)

\* the data table has the reference's keys, position by position
KeysAligned == RefKeys = DataKeys

\* the output has one row per reference row, in the reference's order
RowPerReferenceVariant ==
    /\ len(ret.table) = len(args.ref)
    /\ \A i \in 1..len(args.ref) : OutKey(i) = RefKeys[i]

\* C1 as stated: for every reference table and every data table (duplicate
\* keys in the data included) the result has exactly the reference's rows:
\* as many rows, and row i carries the key of reference row i.
C1_RowPerReference_AnyData == Done => RowPerReferenceVariant

\* C1 (amended): when no reference key occurs in more than one data row, or
\* the data table has the reference's keys position by position, the result
\* has exactly as many rows as the reference table and row i carries the key
\* of reference row i.
C1_RowPerReference ==
    (Done /\ (KeysAligned
              \/ \A i \in 1..len(args.ref) :
                    Cardinality(DataRowsOf(RefKeys[i])) <= 1))
        => RowPerReferenceVariant

C1_Witness ==
    /\ Done
    /\ len(args.ref) >= 2 /\ len(args.df) >= 1
    /\ ~KeysAligned
    /\ \A i \in 1..len(args.ref) : Cardinality(DataRowsOf(RefKeys[i])) <= 1
    /\ \E i \in 1..len(args.ref) : ~InData(RefKeys[i])
    /\ \E i \in 1..len(args.ref) : InData(RefKeys[i])
    /\ RowPerReferenceVariant

\* C4: every reference key without a row in the data table has an output row,
\* and every output row of such a key has all its value columns equal to
\* missing_val, is counted as missing, and is neither matched, mismatched nor
\* flipped; the rows present in the data are the ones counted as mismatched,
\* flipped or matched without a flip.
C4_MissingKeys ==
    Done =>
      /\ \A i \in 1..len(args.ref) :
            ~InData(RefKeys[i]) => \E r \in OutRows : OutKey(r) = RefKeys[i]
      /\ \A r \in OutRows :
            ~InData(OutKey(r)) =>
               /\ \A c \in ValueCols : OutVal(r, c) = MissingValue
               /\ ret.missing[r]
               /\ ~ret.match[r] /\ ~ret.mismatch[r] /\ ~ret.flip[r]
      /\ ret.n_missing = Cardinality({r \in OutRows : ~InData(OutKey(r))})
      /\ ret.n_mismatch + ret.n_flip + ret.n_noflip
            = Cardinality({r \in OutRows : InData(OutKey(r))})

C4_Witness ==
    /\ Done
    /\ args.signed /\ args.missing_val # 0
    /\ len(args.df) >= 1
    /\ \E r \in OutRows :
          /\ ~InData(OutKey(r))
          /\ is_strand_ambiguous(RefPair(r))
          /\ \A c \in ValueCols : OutVal(r, c) = MissingValue
    /\ ret.n_missing = 1 /\ ret.n_mismatch = 0 /\ ret.n_flip = 0

\* the joined row r is present in both tables
Present(r) == ~isnull(Column(ret.merged, "A1_df")[r])

\* C2: in every joined row present in both tables whose allele pairs match,
\* each value column of the output is the data value negated once when
\* signed is true and the flip relation holds, and the data value unchanged
\* otherwise (always unchanged when signed is false).
C2_SignFlip ==
    Done =>
      \A r \in OutRows :
         (Present(r) /\ alleles_match(RefPair(r), DataPair(r))) =>
            \A c \in ValueCols :
               OutVal(r, c) =
                  IF args.signed /\ alleles_match_with_flip(RefPair(r), DataPair(r))
                  THEN Num(0 - JoinedVal(r, c).n)
                  ELSE JoinedVal(r, c)

\* signed, data alleles the exact swap of the reference's: beta 1 becomes -1
C2_Witness ==
    /\ Done
    /\ args.signed
    /\ \E r \in OutRows :
          /\ Present(r)
          /\ RefPair(r) = <<"A", "G">> /\ DataPair(r) = <<"G", "A">>
          /\ JoinedVal(r, "beta") = Num(1)
          /\ OutVal(r, "beta") = Num(0 - 1)
          /\ OutVal(r, "z") = Num(0 - 2)

\* C3: a row whose reference allele pair is strand-ambiguous is never matched
\* or flipped, is classified as mismatched when the data table has its key
\* (whatever the data alleles are), and all its value columns equal
\* missing_val.
C3_AmbiguousReference ==
    Done =>
      \A r \in OutRows :
         is_strand_ambiguous(RefPair(r)) =>
            /\ ~ret.match[r] /\ ~ret.flip[r]
            /\ Present(r) => ret.mismatch[r]
            /\ \A c \in ValueCols : OutVal(r, c) = MissingValue

\* reference A/T, data A/T with beta 1: masked and counted as a mismatch
C3_Witness ==
    /\ Done
    /\ \E r \in OutRows :
          /\ Present(r)
          /\ RefPair(r) = <<"A", "T">> /\ DataPair(r) = <<"A", "T">>
          /\ JoinedVal(r, "beta") = Num(1)
          /\ OutVal(r, "beta") = MissingValue
          /\ MissingValue = Num(0)
    /\ ret.n_mismatch = 1 /\ ret.n_flip = 0 /\ ret.n_noflip = 0

\* some allele of the joined row r is, in upper case, not a base
HasInvalidBase(r) ==
    \E i \in 1..2 : ~IsBase(RefPair(r)[i]) \/ ~IsBase(DataPair(r)[i])

\* C6 as stated: a character outside {A,T,C,G} in an allele of a row present
\* in both tables makes reconciled_to raise InvalidBaseError.
C6_InvalidBaseRaises ==
    (Done /\ \E r \in OutRows : Present(r) /\ HasInvalidBase(r))
        => ret.outcome = "InvalidBaseError"

\* C6 (amended): a character that is, in upper case, outside {A,T,C,G} in an
\* allele of a row present in both tables raises nothing: reconciled_to
\* returns, the row is classified as mismatched (not matched, not flipped)
\* and all its value columns equal missing_val.
C6_InvalidBaseMasked ==
    Done =>
      /\ ret.outcome = "return"
      /\ \A r \in OutRows :
            (Present(r) /\ HasInvalidBase(r)) =>
               /\ ret.mismatch[r] /\ ~ret.match[r] /\ ~ret.flip[r]
               /\ \A c \in ValueCols : OutVal(r, c) = MissingValue

C6_Witness ==
    /\ Done
    /\ ret.outcome = "return"
    /\ \E r \in OutRows :
          /\ Present(r)
          /\ RefPair(r) = <<"A", "G">> /\ DataPair(r) = <<"A", "N">>
          /\ JoinedVal(r, "beta") = Num(1)
          /\ OutVal(r, "beta") = MissingValue
          /\ MissingValue = Num(0)
          /\ ret.mismatch[r]

\* the data table's rows copy the reference's: same keys, same A1 and A2
DataCopiesReference ==
    /\ KeysAligned
    /\ Column(args.df, "A1") = Column(args.ref, "A1")
    /\ Column(args.df, "A2") = Column(args.ref, "A2")

\* every value of the data table comes back unchanged, nothing is counted as
\* mismatched or flipped
RoundTrip ==
    /\ len(ret.table) = len(args.df)
    /\ \A r \in OutRows : \A c \in ValueCols : OutVal(r, c) = Column(args.df, c)[r]
    /\ ret.n_mismatch = 0
    /\ ret.n_flip = 0

\* C8 as stated: for every reference table (each row two different bases), a
\* data table that copies its rows is returned with its values unchanged,
\* zero mismatches, zero flips.
C8_RoundTrip_AnyReference ==
    (/\ Done
     /\ DataCopiesReference
     /\ \A i \in 1..len(args.ref) :
           /\ IsBase(Column(args.ref, "A1")[i].s[1])
           /\ IsBase(Column(args.ref, "A2")[i].s[1])
           /\ Column(args.ref, "A1")[i] # Column(args.ref, "A2")[i])
        => RoundTrip

\* C8 (amended): for every reference table all of whose allele pairs are
\* valid (two different bases, not strand-ambiguous, in upper case), a data
\* table that copies its rows is returned with its values unchanged, zero
\* mismatches and zero flips.
C8_RoundTrip ==
    (/\ Done
     /\ DataCopiesReference
     /\ \A i \in 1..len(args.ref) :
           is_valid(upper(Column(args.ref, "A1")[i].s
                          \o Column(args.ref, "A2")[i].s)))
        => RoundTrip

C8_Witness ==
    /\ Done
    /\ DataCopiesReference
    /\ len(args.ref) >= 2
    /\ args.signed
    /\ RefKeys[1] = RefKeys[2]
    /\ RoundTrip
    /\ OutVal(2, "beta") = Num(2)
    /\ ret.n_noflip = 2

(***************************************************************************)
(* The finished call of smart_merge, as the claims read it.                *)
(***************************************************************************)
MPrimary == Primary(args.x, args.y)

MSecondaries == SeqToSet(Secondaries(args.x, args.y))

\* d differs from the primary table in row count or in the key at a position
Differs(d) ==
    \/ len(d) # len(MPrimary)
    \/ \E i \in 1..len(d) : Column(d, args.key)[i] # Column(MPrimary, args.key)[i]

\* C5: with fail_if_nonmatching set and some secondary table differing from
\* the primary in row count or in the key at some position, smart_merge
\* aborts (exit() raises SystemExit to the caller, the code's fatal alignment
\* error): it returns no table and pd.merge is never called.
C5_FailIfNonmatching ==
    (Done /\ args.fail_if_nonmatching /\ \E d \in MSecondaries : Differs(d))
        => /\ ret.outcome = "exit"
           /\ ret.table = NoTable
           /\ ~ret.joined

\* same length, same keys, another order
C5_Witness ==
    /\ Done
    /\ args.fail_if_nonmatching
    /\ \E d \in MSecondaries :
          /\ len(d) = len(MPrimary)
          /\ len(d) >= 2
          /\ SeqToSet(Column(d, args.key)) = SeqToSet(Column(MPrimary, args.key))
          /\ Differs(d)
    /\ ret.outcome = "exit"

\* C7: when every secondary table has the primary's keys position by
\* position, then for any join mode the result has the primary's rows in the
\* primary's order, row i carries the non-key columns of row i of the primary
\* and of row i of every secondary table, and the key column appears once.
C7_FastPath ==
    (Done /\ \A d \in MSecondaries : ~Differs(d))
        => /\ ret.outcome = "return"
           /\ len(ret.table) = len(MPrimary)
           /\ \A i \in 1..len(MPrimary) :
                 /\ \A c \in SeqToSet(MPrimary.cols) :
                       Column(ret.table, c)[i] = Column(MPrimary, c)[i]
                 /\ \A d \in MSecondaries :
                       \A c \in SeqToSet(d.cols) \ {args.key} :
                          Column(ret.table, c)[i] = Column(d, c)[i]
           /\ Cardinality({j \in 1..Len(ret.table.cols) :
                              ret.table.cols[j] = args.key}) = 1

C7_Witness ==
    /\ Done
    /\ Cardinality(MSecondaries) = 2
    /\ \A d \in MSecondaries : ~Differs(d)
    /\ len(MPrimary) >= 2
    /\ args.how = "inner"
    /\ args.drop_from_y = <<"junk">>
    /\ ret.table.cols = <<"SNP", "a", "b", "c">>
    /\ ret.table.rows[2] = <<Column(MPrimary, "SNP")[2], Num(2), Num(12), Num(22)>>

(***************************************************************************)
(* The finished lookup of a code p+q, as the claims read it.               *)
(***************************************************************************)
\* C9: the match relation is symmetric: p+q is in MATCH_ALLELES if and only
\* if q+p is (for pairs that are not both valid, neither is).
C9_MatchSymmetric == Done => (ret.in_match <=> ret.rev_match)

C9_Witness ==
    /\ Done
    /\ is_valid(args.p) /\ is_valid(args.q)
    /\ args.p # args.q
    /\ ret.in_match /\ ret.rev_match

\* C10: every element of MATCH_ALLELES is exactly one of a same-order match
\* (direct, or strand flip only) and a swapped-order match (reference-order
\* flip, with or without strand flip), and FLIP_ALLELES is MATCH_ALLELES
\* minus the same-order matches.
C10_FlipPartition ==
    Done =>
      /\ ret.in_match => (ret.same_order <=> ~ret.swapped)
      /\ ret.in_flip <=> (ret.in_match /\ ~ret.same_order)

C10_Witness ==
    /\ Done
    /\ args.p = <<"A", "G">> /\ args.q = <<"C", "T">>
    /\ ret.in_match /\ ret.in_flip
    /\ ret.swapped /\ ~ret.same_order

====
